---- MODULE Spec2Model ----
(***************************************************************************)
(* Model of the Supabase MCP adapter (src/unnamed/part_000): the shared    *)
(* connection slot, the read-only SQL guard, the tool argument builder and *)
(* the payload decoder / result unwrapper.                                 *)
(*                                                                         *)
(* Eight specifications share the module:                                  *)
(*   SpecConn      - getClient / createClient, the connection callbacks    *)
(*   SpecSql       - sanitizeReadOnlySql                                   *)
(*   SpecArgs      - buildArgumentsForTool                                 *)
(*   SpecDecode    - decodeEscapedJson                                     *)
(*   SpecStrip     - stripBoundaryArtifacts followed by JSON.parse         *)
(*   SpecNormalize - normalizeRowsPayload, once and on its own output      *)
(*   SpecUnwrap    - unwrapToolResult followed by normalizeRowsPayload     *)
(*   SpecExec      - one call of executeSupabaseSql and its requests       *)
(***************************************************************************)
EXTENDS Integers, Sequences, FiniteSets, TLC

VARIABLES
    clientPromise,  \* the module-level slot: 0 is null, c > 0 is creation c's promise
    cstate,         \* per creation: the state of the createClient() promise
    outer,          \* per creation: the state of createClient().catch(...) kept in the slot
    closed,         \* per creation: the client's onclose callback has fired
    errorLog,       \* the clients whose onerror callback has logged an error
    nextId,         \* the next creation to start
    holding,        \* per caller: the promise its getClient() returned (0: none)
    result,         \* per caller: idle | awaiting | client | error
    input,          \* the argument of the pure function under check
    output          \* its result ("none" before the call)

vars == <<clientPromise, cstate, outer, closed, errorLog, nextId, holding, result,
          input, output>>

connVars == <<clientPromise, cstate, outer, closed, errorLog, nextId, holding, result>>

(***************************************************************************)
(* Bounds                                                                  *)
(***************************************************************************)
MaxCreations == 3
NumCallers == 2

Creations == 1..MaxCreations
Callers == 1..NumCallers

(***************************************************************************)
(* The shared connection slot                                              *)
(***************************************************************************)

\* The onclose / onerror callbacks are set after the configuration has been
\* resolved and before connect() is awaited.
Hooked(c) == cstate[c] \in {"connecting", "connected", "connectFailed"}

\* A creation is in flight while its createClient() promise is pending.
InFlight(c) == cstate[c] = "connecting"

\* The module as loaded: let clientPromise = null, nothing called yet.
NoConnection ==
    /\ clientPromise = 0
    /\ cstate = [c \in Creations |-> "unused"]
    /\ outer = [c \in Creations |-> "unused"]
    /\ closed = [c \in Creations |-> FALSE]
    /\ errorLog = {}
    /\ nextId = 1
    /\ holding = [p \in Callers |-> 0]
    /\ result = [p \in Callers |-> "idle"]

InitConn ==
    /\ NoConnection
    /\ input = "none"
    /\ output = "none"

\* createClient() up to its first await: resolveSupabaseServerConfig() either
\* throws (the promise is born rejected, no client exists) or the client is
\* built, its callbacks are set and connect() is started.
createClient(c, configOk) ==
    cstate' = [cstate EXCEPT ![c] = IF configOk THEN "connecting" ELSE "configFailed"]

\* The slot after getClient()'s test: a null slot takes the new creation's
\* caught promise, a set slot is kept.
SlotAfterGetClient(slot, c) == IF slot = 0 THEN c ELSE slot

getClient(p) ==
    /\ result[p] # "awaiting"
    /\ IF clientPromise = 0
       THEN /\ nextId <= MaxCreations
            /\ \E configOk \in BOOLEAN : createClient(nextId, configOk)
            /\ outer' = [outer EXCEPT ![nextId] = "pending"]
            /\ nextId' = nextId + 1
       ELSE UNCHANGED <<cstate, outer, nextId>>
    /\ clientPromise' = SlotAfterGetClient(clientPromise, nextId)
    /\ holding' = [holding EXCEPT ![p] = clientPromise']
    /\ result' = [result EXCEPT ![p] = "awaiting"]
    /\ UNCHANGED <<closed, errorLog, input, output>>

\* await client.connect(transport) resolves: createClient returns the client
\* and the caught promise is fulfilled with it.
connectResolves(c) ==
    /\ cstate[c] = "connecting"
    /\ cstate' = [cstate EXCEPT ![c] = "connected"]
    /\ outer' = [outer EXCEPT ![c] = "fulfilled"]
    /\ UNCHANGED <<clientPromise, closed, errorLog, nextId, holding, result, input, output>>

\* await client.connect(transport) rejects: createClient's promise rejects.
connectRejects(c) ==
    /\ cstate[c] = "connecting"
    /\ cstate' = [cstate EXCEPT ![c] = "connectFailed"]
    /\ UNCHANGED <<clientPromise, outer, closed, errorLog, nextId, holding, result,
                   input, output>>

\* Mutant: the .catch handler rethrows without clearing the slot.
SlotAfterCatchKept(slot, c) == slot

\* The slot after the .catch handler of getClient has run.
SlotAfterCatch(slot, c) == 0

\* The .catch handler of getClient: clears the slot and rethrows.
createClientCatch(c) ==
    /\ cstate[c] \in {"configFailed", "connectFailed"}
    /\ outer[c] = "pending"
    /\ clientPromise' = SlotAfterCatch(clientPromise, c)
    /\ outer' = [outer EXCEPT ![c] = "rejected"]
    /\ UNCHANGED <<cstate, closed, errorLog, nextId, holding, result, input, output>>

\* A caller's await of the promise getClient returned resumes.
awaitResumes(p) ==
    /\ result[p] = "awaiting"
    /\ outer[holding[p]] \in {"fulfilled", "rejected"}
    /\ result' = [result EXCEPT ![p] =
                    IF outer[holding[p]] = "fulfilled" THEN "client" ELSE "error"]
    /\ UNCHANGED <<clientPromise, cstate, outer, closed, errorLog, nextId, holding,
                   input, output>>

\* client.onclose: clears the slot, whatever it holds.
onclose(c) ==
    /\ Hooked(c)
    /\ ~closed[c]
    /\ clientPromise' = 0
    /\ closed' = [closed EXCEPT ![c] = TRUE]
    /\ UNCHANGED <<cstate, outer, errorLog, nextId, holding, result, input, output>>

\* client.onerror: logs the error and nothing else.
onerror(c) ==
    /\ Hooked(c)
    /\ c \notin errorLog
    /\ errorLog' = errorLog \cup {c}
    /\ UNCHANGED <<clientPromise, cstate, outer, closed, nextId, holding, result,
                   input, output>>

NextConn ==
    \/ \E p \in Callers : getClient(p)
    \/ \E c \in Creations : connectResolves(c)
    \/ \E c \in Creations : connectRejects(c)
    \/ \E c \in Creations : createClientCatch(c)
    \/ \E p \in Callers : awaitResumes(p)
    \/ \E c \in Creations : onclose(c)
    \/ \E c \in Creations : onerror(c)

SpecConn == InitConn /\ [][NextConn]_vars

\* C1: at most one connection creation is in flight at any time: while one
\* createClient() promise is pending no second one is started.
C1_SingleCreationInFlight ==
    Cardinality({c \in Creations : InFlight(c)}) <= 1

\* C2: a failed creation is never left in the slot (the slot is cleared when
\* the failure is delivered, so the next getClient starts afresh), and every
\* caller that awaited a creation observes that creation's own outcome: an
\* error when it failed, never a client.
C2_FailureClearsSlot ==
    /\ \A c \in Creations : outer[c] = "rejected" => clientPromise # c
    /\ \A p \in Callers :
          /\ result[p] = "error" => outer[holding[p]] = "rejected"
          /\ result[p] = "client" => outer[holding[p]] = "fulfilled"
          /\ (holding[p] # 0 /\ outer[holding[p]] = "rejected")
                => result[p] \in {"awaiting", "error"}

\* C2 witness: a connect() failure has been delivered to both callers that
\* shared the creation, and the slot is null again.
C2_Witness ==
    \E c \in Creations :
        /\ cstate[c] = "connectFailed"
        /\ outer[c] = "rejected"
        /\ \A p \in Callers : holding[p] = c /\ result[p] = "error"
        /\ clientPromise = 0

\* C3: a ready handle stays in the slot (and so is reused by every later
\* getClient) until it is closed or errors, and after a close signal or an
\* error signal on the connection the slot no longer holds it.
C3_ReusedUntilCloseOrError ==
    \A c \in Creations :
        /\ (outer[c] = "fulfilled" /\ (closed[c] \/ c \in errorLog))
              => clientPromise # c
        /\ (outer[c] = "fulfilled" /\ ~closed[c] /\ c \notin errorLog)
              => clientPromise = c

(***************************************************************************)
(* Text                                                                    *)
(*                                                                         *)
(* A text is a sequence of characters.  In SQL texts a keyword is one      *)
(* element (a run of word characters taken whole), the fence of three      *)
(* backquotes is one element, and every other element is one character.    *)
(***************************************************************************)

\* String.prototype.trim's white space, as far as the alphabets hold it.
Whitespace == {" ", "\n", "\t", "\r", "\f"}

RECURSIVE TrimLeft(_)
TrimLeft(s) ==
    IF s = <<>> THEN s
    ELSE IF Head(s) \in Whitespace THEN TrimLeft(Tail(s)) ELSE s

RECURSIVE TrimRight(_)
TrimRight(s) ==
    IF s = <<>> THEN s
    ELSE IF s[Len(s)] \in Whitespace THEN TrimRight(SubSeq(s, 1, Len(s) - 1)) ELSE s

\* text.trim()
Trim(s) == TrimRight(TrimLeft(s))

\* All texts over alphabet A of length at most n.
RECURSIVE TextsUpTo(_, _)
TextsUpTo(A, n) ==
    IF n = 0 THEN {<<>>}
    ELSE LET shorter == TextsUpTo(A, n - 1)
         IN  shorter \cup {<<a>> \o t : a \in A, t \in {u \in shorter : Len(u) = n - 1}}

(***************************************************************************)
(* The SQL guard (sanitizeReadOnlySql)                                     *)
(***************************************************************************)
\* The fence: three backquote characters.
Fence == "FENCE"

\* The /i flag: letters compare by their lower-case form.
Fold(ch) ==
    CASE ch = "SELECT" -> "select"
      [] ch = "WITH" -> "with"
      [] ch = "LIMIT" -> "limit"
      [] ch = "SQL" -> "sql"
      [] ch = "Update" -> "update"
      [] OTHER -> ch

\* \w: the elements made of letters, digits and underscores.
WordChars ==
    {"select", "SELECT", "with", "WITH", "limit", "LIMIT", "sql", "SQL", "drop",
     "update", "Update", "x", "_", "0", "1"}

\* \d
SqlDigits == {"0", "1"}

DeniedWords ==
    {"insert", "update", "delete", "alter", "drop", "create", "grant", "revoke",
     "truncate"}

\* \b after position i of text (i = 0: before the first element).
WordBoundaryAt(text, i) ==
    LET before == i >= 1 /\ text[i] \in WordChars
        after == i < Len(text) /\ text[i + 1] \in WordChars
    IN  before # after

\* text.startsWith(fence)
StartsWithFence(text) == Len(text) >= 1 /\ text[1] = Fence

\* Mutant: the opening fence is removed whether or not the sql tag follows it.
StripOpeningFenceAnyTag(text) ==
    IF Len(text) >= 2 /\ text[1] = Fence /\ Fold(text[2]) = "sql"
    THEN TrimLeft(SubSeq(text, 3, Len(text)))
    ELSE IF Len(text) >= 1 /\ text[1] = Fence
         THEN TrimLeft(SubSeq(text, 2, Len(text)))
         ELSE text

\* text.replace(/^<fence>sql\s*/i, "")
StripOpeningFence(text) ==
    IF Len(text) >= 2 /\ text[1] = Fence /\ Fold(text[2]) = "sql"
    THEN TrimLeft(SubSeq(text, 3, Len(text)))
    ELSE text

\* text.replace(/<fence>$/g, "")
StripClosingFence(text) ==
    IF Len(text) >= 1 /\ text[Len(text)] = Fence
    THEN SubSeq(text, 1, Len(text) - 1)
    ELSE text

\* /^(select|with)\b/i.test(text)
LeadPattern(text) ==
    /\ Len(text) >= 1
    /\ Fold(text[1]) \in {"select", "with"}
    /\ WordBoundaryAt(text, 1)

\* /\b(insert|update|delete|alter|drop|create|grant|revoke|truncate)\b/i.test(text)
DeniedPattern(text) ==
    \E i \in 1..Len(text) :
        /\ Fold(text[i]) \in DeniedWords
        /\ WordBoundaryAt(text, i - 1)
        /\ WordBoundaryAt(text, i)

RECURSIVE DropTrailing(_, _)
DropTrailing(text, ch) ==
    IF text # <<>> /\ text[Len(text)] = ch
    THEN DropTrailing(SubSeq(text, 1, Len(text) - 1), ch)
    ELSE text

\* Mutant: only the last semicolon is removed (/;\s*$/).
RemoveOneTrailingSemicolon(text) ==
    LET body == TrimRight(text)
    IN  IF body # <<>> /\ body[Len(body)] = ";"
        THEN SubSeq(body, 1, Len(body) - 1)
        ELSE text

\* text.replace(/;+\s*$/g, ""): the run of semicolons that only white space
\* follows is removed together with that white space.
RemoveTrailingSemicolons(text) ==
    LET body == TrimRight(text)
    IN  IF body # <<>> /\ body[Len(body)] = ";"
        THEN DropTrailing(body, ";")
        ELSE text

\* /limit\s+\d+/i.test(text)
LimitPattern(text) ==
    \E i \in 1..Len(text) :
        /\ Fold(text[i]) = "limit"
        /\ \E j \in (i + 2)..Len(text) :
              /\ text[j] \in SqlDigits
              /\ \A k \in (i + 1)..(j - 1) : text[k] \in Whitespace

\* " LIMIT 100"
LimitSuffix == <<" ", "LIMIT", " ", "1", "0", "0">>

Thrown(message) == [st |-> "error", val |-> message]
Returned(value) == [st |-> "ok", val |-> value]
NotCalled == [st |-> "none", val |-> "none"]

sanitizeReadOnlySql(candidate) ==
    LET trimmed == Trim(candidate)
        text == IF StartsWithFence(trimmed)
                THEN Trim(StripClosingFence(StripOpeningFence(trimmed)))
                ELSE trimmed
        stripped == RemoveTrailingSemicolons(text)
    IN  IF trimmed = <<>>
        THEN Thrown("SQL input cannot be empty.")
        ELSE IF ~LeadPattern(text)
        THEN Thrown("Only read-only SELECT or WITH statements are allowed.")
        ELSE IF DeniedPattern(text)
        THEN Thrown("Only read-only SQL statements are allowed.")
        ELSE Returned(IF ~LimitPattern(stripped) THEN stripped \o LimitSuffix
                      ELSE stripped)

\* The candidate statements: an opening, any text of at most MaxSqlLen
\* elements, a closing.
MaxSqlLen == 3

SqlAlphabet == {"select", "drop", "limit", "x", "1", " ", ";", Fence}

SqlOpenings ==
    {<<>>, <<"select", " ">>, <<"WITH", " ">>, <<" ", "select">>,
     <<Fence, "sql", "\n", "select", " ">>, <<Fence, "SQL", "select">>,
     <<Fence, "\n", "select", " ">>, <<"select", " ", "Update">>,
     <<"select", " ", "limit", " ">>}

SqlClosings == {<<>>, <<Fence>>, <<";", " ">>, <<"\n", Fence, "\n">>}

SqlInputs ==
    {o \o t \o c : o \in SqlOpenings, t \in TextsUpTo(SqlAlphabet, MaxSqlLen),
                   c \in SqlClosings}

InitSql ==
    /\ NoConnection
    /\ input \in SqlInputs
    /\ output = NotCalled

Sanitize ==
    /\ output.st = "none"
    /\ output' = sanitizeReadOnlySql(input)
    /\ UNCHANGED <<connVars, input>>

NextSql == Sanitize

SpecSql == InitSql /\ [][NextSql]_vars

\* The denied words occurring as whole words of a text.
ContainsDeniedWord(text) ==
    \E i \in 1..Len(text) :
        /\ Fold(text[i]) \in DeniedWords
        /\ (i = 1 \/ text[i - 1] \notin WordChars)
        /\ (i = Len(text) \/ text[i + 1] \notin WordChars)

\* The text begins with the word select or with.
BeginsWithSelectOrWith(text) ==
    /\ text # <<>>
    /\ Fold(Head(text)) \in {"select", "with"}
    /\ (Len(text) = 1 \/ text[2] \notin WordChars)

\* A fenced code block unwrapped, whatever its opening line: the opening
\* fence with its optional sql tag and the closing fence are removed.
UnwrapAnyFence(text) ==
    IF text = <<>> \/ Head(text) # Fence THEN text
    ELSE LET rest == Tail(text)
             body == IF rest # <<>> /\ Fold(Head(rest)) = "sql" THEN Tail(rest) ELSE rest
             inner == IF body # <<>> /\ body[Len(body)] = Fence
                      THEN SubSeq(body, 1, Len(body) - 1) ELSE body
         IN  Trim(inner)

\* A fenced SQL block unwrapped: only an opening fence that carries the sql
\* tag is removed (with the closing fence); any other text is left as it is.
UnwrapSqlFence(text) ==
    IF Len(text) >= 2 /\ text[1] = Fence /\ Fold(text[2]) = "sql"
    THEN LET body == SubSeq(text, 3, Len(text))
             inner == IF body # <<>> /\ body[Len(body)] = Fence
                      THEN SubSeq(body, 1, Len(body) - 1) ELSE body
         IN  Trim(inner)
    ELSE text

\* C5 as claimed: the guard rejects exactly the inputs that are empty after
\* trimming, or do not begin with select / with once a fenced code-block
\* wrapper is stripped, or contain a denied word as a whole word.
C5_RejectsExactlyAnyFence ==
    output.st # "none" =>
        ((output.st = "error") <=>
            \/ Trim(input) = <<>>
            \/ ~BeginsWithSelectOrWith(UnwrapAnyFence(Trim(input)))
            \/ ContainsDeniedWord(input))

\* C5 as amended: the same, where the only wrapper stripped is a fence whose
\* opening carries the sql tag; an input opening with an untagged fence is
\* rejected as not beginning with select / with.
C5_RejectsExactlySqlFence ==
    output.st # "none" =>
        ((output.st = "error") <=>
            \/ Trim(input) = <<>>
            \/ ~BeginsWithSelectOrWith(UnwrapSqlFence(Trim(input)))
            \/ ContainsDeniedWord(input))

\* C5 witness: a statement in a fenced SQL block has been unwrapped and accepted.
C5_Witness ==
    /\ output.st = "ok"
    /\ Head(input) = Fence
    /\ input[Len(input)] = Fence

\* The text has a limit clause: the word limit, white space, a digit.
HasLimitClause(text) ==
    \E i \in 1..Len(text), n \in 1..Len(text) :
        /\ i + n + 1 <= Len(text)
        /\ Fold(text[i]) = "limit"
        /\ \A k \in 1..n : text[i + k] \in Whitespace
        /\ text[i + n + 1] \in SqlDigits

\* C6: for every accepted input the result is the accepted text without its
\* trailing semicolons, followed by " LIMIT 100" exactly when the accepted
\* text has no limit clause; so every result has a limit clause.
C6_LimitApplied ==
    output.st = "ok" =>
        LET text == UnwrapSqlFence(Trim(input))
            base == DropTrailing(text, ";")
        IN  /\ output.val = IF HasLimitClause(text) THEN base ELSE base \o LimitSuffix
            /\ (base = <<>> \/ base[Len(base)] # ";")
            /\ HasLimitClause(output.val)

\* C6 witness: an accepted statement that ends in semicolons and has its own
\* limit clause is returned without them and without an added limit.
C6_Witness ==
    /\ output.st = "ok"
    /\ Len(input) >= 2
    /\ input[Len(input)] = ";"
    /\ input[Len(input) - 1] = ";"
    /\ Len(output.val) < Len(input)
    /\ HasLimitClause(input)

(***************************************************************************)
(* The tool argument builder (buildArgumentsForTool)                       *)
(*                                                                         *)
(* A mapping is a function from its keys to values.  A tool is             *)
(* [hasProperties, properties, required]: whether inputSchema.properties   *)
(* is set, its keys, and inputSchema.required (absent: empty).             *)
(* explicitArgs is [given, map].                                           *)
(***************************************************************************)
PropertyNames == {"prompt", "Query", "sql", "foo"}

\* Argument values are texts; the value undefined stored under a key is a
\* one-element sequence that no text is.
Undefined == <<"undefined">>
ExplicitValues == {<<"v">>, Undefined}
Prompts == {<<"select", " ", "1">>}

\* name.toLowerCase().replace(/[^a-z0-9]/g, "")
normalizePropertyName(name) ==
    CASE name = "Query" -> "query"
      [] OTHER -> name

\* The switch of inferArgumentValue: context.prompt or undefined.
inferArgumentValue(propertyName, context) ==
    IF normalizePropertyName(propertyName) \in {"prompt", "question", "input", "query", "sql"}
    THEN context.prompt
    ELSE Undefined

\* { ...a, ...b }
Spread(a, b) ==
    [k \in (DOMAIN a) \cup (DOMAIN b) |-> IF k \in DOMAIN b THEN b[k] ELSE a[k]]

EmptyMapping == [k \in {} |-> Undefined]

\* args[key] === undefined
IsUndefinedIn(args, key) == key \notin DOMAIN args \/ args[key] = Undefined

buildArgumentsForTool(tool, context, explicitArgs) ==
    LET fallback == [k \in {"prompt"} |-> context.prompt]
        overrides == IF explicitArgs.given THEN explicitArgs.map ELSE EmptyMapping
        \* the loop over Object.keys(properties): an override is taken and
        \* consumed, else the inferred value is taken when there is one
        taken == {k \in tool.properties : k \in DOMAIN overrides}
        inferred == {k \in tool.properties \ taken :
                        inferArgumentValue(k, context) # Undefined}
        fromProperties ==
            [k \in taken \cup inferred |->
                IF k \in taken THEN overrides[k] ELSE inferArgumentValue(k, context)]
        remaining == [k \in (DOMAIN overrides) \ taken |-> overrides[k]]
        args == Spread(fromProperties, remaining)
        missing == {key \in tool.required : IsUndefinedIn(args, key)}
    IN  IF ~tool.hasProperties
        THEN Returned(IF explicitArgs.given THEN Spread(fallback, explicitArgs.map)
                      ELSE fallback)
        ELSE IF missing # {}
        THEN Thrown(missing)
        ELSE IF DOMAIN args = {}
        THEN Returned(IF explicitArgs.given THEN explicitArgs.map ELSE fallback)
        ELSE Returned(args)

Tools ==
    [hasProperties : {TRUE}, properties : SUBSET PropertyNames,
     required : SUBSET PropertyNames]
    \cup [hasProperties : {FALSE}, properties : {{}}, required : SUBSET PropertyNames]

ExplicitArgs ==
    {[given |-> FALSE, map |-> EmptyMapping]}
    \cup {[given |-> TRUE, map |-> m] :
            m \in UNION {[D -> ExplicitValues] : D \in SUBSET PropertyNames}}

InitArgs ==
    /\ NoConnection
    /\ input \in [tool : Tools, context : [prompt : Prompts], explicitArgs : ExplicitArgs]
    /\ output = NotCalled

BuildArguments ==
    /\ output.st = "none"
    /\ output' = buildArgumentsForTool(input.tool, input.context, input.explicitArgs)
    /\ UNCHANGED <<connVars, input>>

NextArgs == BuildArguments

SpecArgs == InitArgs /\ [][NextArgs]_vars

\* C7: the builder fails exactly when a declared-required name is absent from
\* the arguments it built, the error lists every such name, and a mapping is
\* returned only when every declared-required name is present in it; this for
\* every schema, with or without declared properties.
C7_RequiredEnforced ==
    /\ output.st = "ok" =>
          \A key \in input.tool.required : ~IsUndefinedIn(output.val, key)
    /\ output.st = "error" =>
          /\ output.val # {}
          /\ output.val \subseteq input.tool.required
          /\ \A key \in input.tool.required \ output.val :
                \/ (input.explicitArgs.given
                      /\ ~IsUndefinedIn(input.explicitArgs.map, key))
                \/ ( /\ key \in input.tool.properties
                     /\ key \notin DOMAIN input.explicitArgs.map
                     /\ inferArgumentValue(key, input.context) # Undefined)

(***************************************************************************)
(* JSON                                                                    *)
(*                                                                         *)
(* In payload texts the words null, true, false, rows, data and sql and    *)
(* the two tag openers are one element each; every other element is one    *)
(* character.  A value is [k, v]: k is its kind, v the word of a boolean,  *)
(* the digits of a number, the characters of a string, the items of an     *)
(* array, or the mapping (from key text to value) of an object.            *)
(***************************************************************************)
DQ == "\""
BS == "\\"
OpenTag == "<untrusted-data"
CloseTag == "</untrusted-data"
GT == ">"

\* The characters a JSON string may not hold unescaped.
ControlChars == {"\n", "\t", "\r", "\f"}

\* The whitespace JSON.parse skips.
JsonWhitespace == {" ", "\n", "\t", "\r"}

JUndefined == [k |-> "undefined", v |-> <<>>]
JNull == [k |-> "null", v |-> <<>>]
JBool(word) == [k |-> "boolean", v |-> <<word>>]
JNum(digits) == [k |-> "number", v |-> digits]
JStr(chars) == [k |-> "string", v |-> chars]
JArr(items) == [k |-> "array", v |-> items]
JObj(fields) == [k |-> "object", v |-> fields]

\* value === undefined || value === null
Nullish(value) == value.k \in {"undefined", "null"}

\* value.name, for a value that is not nullish
Prop(value, name) ==
    IF value.k = "object" /\ <<name>> \in DOMAIN value.v
    THEN value.v[<<name>>]
    ELSE JUndefined

Put(fields, key, value) ==
    [f \in (DOMAIN fields) \cup {key} |-> IF f = key THEN value ELSE fields[f]]

ParseFail == [ok |-> FALSE, val |-> JUndefined, rest |-> <<>>]
Parsed(value, rest) == [ok |-> TRUE, val |-> value, rest |-> rest]

\* The escapes of a JSON string: \" \\ \/ \t \n \r \f, the letter also as the
\* first letter of a word (the rest of the word follows as plain text).
EscapeLetters == {DQ, BS, "/", "t", "n", "r", "f", "null", "rows", "true", "false"}

EscapedChar(e) ==
    CASE e = DQ -> DQ
      [] e = BS -> BS
      [] e = "/" -> "/"
      [] e \in {"t", "true"} -> "\t"
      [] e \in {"n", "null"} -> "\n"
      [] e \in {"r", "rows"} -> "\r"
      [] e \in {"f", "false"} -> "\f"

EscapeRest(e) ==
    CASE e = "null" -> <<"ull">>
      [] e = "rows" -> <<"ows">>
      [] e = "true" -> <<"rue">>
      [] e = "false" -> <<"alse">>
      [] OTHER -> <<>>

\* A JSON string from after its opening quote.
RECURSIVE ParseString(_, _)
ParseString(s, acc) ==
    IF s = <<>> THEN ParseFail
    ELSE IF Head(s) = DQ THEN Parsed(JStr(acc), Tail(s))
    ELSE IF Head(s) = BS
    THEN IF Len(s) >= 2 /\ s[2] \in EscapeLetters
         THEN ParseString(EscapeRest(s[2]) \o SubSeq(s, 3, Len(s)),
                          Append(acc, EscapedChar(s[2])))
         ELSE ParseFail
    ELSE IF Head(s) \in ControlChars THEN ParseFail
    ELSE ParseString(Tail(s), Append(acc, Head(s)))

RECURSIVE ParseDigits(_, _)
ParseDigits(s, acc) ==
    IF s # <<>> /\ Head(s) = "1"
    THEN ParseDigits(Tail(s), Append(acc, "1"))
    ELSE Parsed(JNum(acc), s)

RECURSIVE SkipWhitespace(_)
SkipWhitespace(s) ==
    IF s # <<>> /\ Head(s) \in JsonWhitespace THEN SkipWhitespace(Tail(s)) ELSE s

RECURSIVE ParseValue(_)
RECURSIVE ParseElements(_, _)
RECURSIVE ParseMembers(_, _)

ParseValue(s) ==
    LET t == SkipWhitespace(s)
        r == SkipWhitespace(Tail(t))
    IN  IF t = <<>> THEN ParseFail
        ELSE CASE Head(t) = "[" ->
                    IF r # <<>> /\ Head(r) = "]" THEN Parsed(JArr(<<>>), Tail(r))
                    ELSE ParseElements(r, <<>>)
               [] Head(t) = "{" ->
                    IF r # <<>> /\ Head(r) = "}" THEN Parsed(JObj(<<>>), Tail(r))
                    ELSE ParseMembers(r, <<>>)
               [] Head(t) = DQ -> ParseString(Tail(t), <<>>)
               [] Head(t) = "1" -> ParseDigits(t, <<>>)
               [] Head(t) = "null" -> Parsed(JNull, Tail(t))
               [] Head(t) \in {"true", "false"} -> Parsed(JBool(Head(t)), Tail(t))
               [] OTHER -> ParseFail

ParseElements(s, acc) ==
    LET e == ParseValue(s)
        u == SkipWhitespace(e.rest)
    IN  IF ~e.ok \/ u = <<>> THEN ParseFail
        ELSE IF Head(u) = "," THEN ParseElements(Tail(u), Append(acc, e.val))
        ELSE IF Head(u) = "]" THEN Parsed(JArr(Append(acc, e.val)), Tail(u))
        ELSE ParseFail

ParseMembers(s, acc) ==
    LET t == SkipWhitespace(s)
        key == ParseString(Tail(t), <<>>)
        u == SkipWhitespace(key.rest)
        e == ParseValue(Tail(u))
        w == SkipWhitespace(e.rest)
        fields == Put(acc, key.val.v, e.val)
    IN  IF t = <<>> \/ Head(t) # DQ THEN ParseFail
        ELSE IF ~key.ok \/ u = <<>> \/ Head(u) # ":" THEN ParseFail
        ELSE IF ~e.ok \/ w = <<>> THEN ParseFail
        ELSE IF Head(w) = "," THEN ParseMembers(Tail(w), fields)
        ELSE IF Head(w) = "}" THEN Parsed(JObj(fields), Tail(w))
        ELSE ParseFail

\* JSON.parse(text): ok is FALSE where it throws.
JSONParse(text) ==
    LET r == ParseValue(text)
    IN  IF r.ok /\ SkipWhitespace(r.rest) = <<>>
        THEN [ok |-> TRUE, val |-> r.val]
        ELSE [ok |-> FALSE, val |-> JUndefined]

(***************************************************************************)
(* The payload decoder                                                     *)
(***************************************************************************)
RECURSIVE DropLeading(_, _)
DropLeading(text, ch) ==
    IF text # <<>> /\ Head(text) = ch THEN DropLeading(Tail(text), ch) ELSE text

\* text.replace(/^"+|"+$/g, "")
StripQuotes(text) == DropTrailing(DropLeading(text, DQ), DQ)

\* The fast path's test of decodeEscapedJson.
Bracketed(text) ==
    /\ text # <<>>
    /\ \/ Head(text) = "{" /\ text[Len(text)] = "}"
       \/ Head(text) = "[" /\ text[Len(text)] = "]"

\* A decoder without the fast path for bracketed text.
decodeEscapedJsonNoFastPath(text) ==
    LET r == JSONParse(<<DQ>> \o text \o <<DQ>>)
    IN  IF r.ok THEN [isNull |-> FALSE, text |-> r.val.v]
        ELSE [isNull |-> TRUE, text |-> <<>>]

\* decodeEscapedJson(text): isNull where it returns null.
decodeEscapedJson(text) ==
    LET r == JSONParse(<<DQ>> \o text \o <<DQ>>)
    IN  IF Bracketed(text) THEN [isNull |-> FALSE, text |-> text]
        ELSE IF r.ok THEN [isNull |-> FALSE, text |-> r.val.v]
        ELSE [isNull |-> TRUE, text |-> <<>>]

\* decodeEscapedJson(text) ?? text
DecodedOrSelf(text) ==
    LET d == decodeEscapedJson(text) IN IF d.isNull THEN text ELSE d.text

\* The least index, from the given one on, of an element of S, or 0.
FirstIndex(text, S, from) ==
    IF \E i \in from..Len(text) : text[i] \in S
    THEN CHOOSE i \in from..Len(text) :
            /\ text[i] \in S
            /\ \A j \in from..(i - 1) : text[j] \notin S
    ELSE 0

\* The greatest index of an element of S, or 0.
LastIndex(text, S) ==
    IF \E i \in 1..Len(text) : text[i] \in S
    THEN CHOOSE i \in 1..Len(text) :
            /\ text[i] \in S
            /\ \A j \in (i + 1)..Len(text) : text[j] \notin S
    ELSE 0

\* <untrusted-data[^>]*> matched at i: the index of its ">", or 0.
OpenTagEnd(text, i) ==
    IF text[i] = OpenTag THEN FirstIndex(text, {GT}, i + 1) ELSE 0

\* </untrusted-data[^>]*> matched at p.
CloseTagAt(text, p) ==
    text[p] = CloseTag /\ FirstIndex(text, {GT}, p + 1) # 0

\* The same match with a greedy group: up to the last closing tag.
MatchWithCloseGreedy(text) ==
    LET starts == {i \in 1..Len(text) :
                      /\ OpenTagEnd(text, i) # 0
                      /\ \E p \in (OpenTagEnd(text, i) + 1)..Len(text) :
                            CloseTagAt(text, p)}
        i == CHOOSE a \in starts : \A b \in starts : a <= b
        j == OpenTagEnd(text, i)
        p == CHOOSE a \in (j + 1)..Len(text) :
                /\ CloseTagAt(text, a)
                /\ \A b \in (a + 1)..Len(text) : ~CloseTagAt(text, b)
    IN  IF starts = {} THEN [found |-> FALSE, group |-> <<>>]
        ELSE [found |-> TRUE, group |-> SubSeq(text, j + 1, p - 1)]

\* value.match(/<untrusted-data[^>]*>([\s\S]*?)<\/untrusted-data[^>]*>/i):
\* found, and group 1.
MatchWithClose(text) ==
    LET starts == {i \in 1..Len(text) :
                      /\ OpenTagEnd(text, i) # 0
                      /\ \E p \in (OpenTagEnd(text, i) + 1)..Len(text) :
                            CloseTagAt(text, p)}
        i == CHOOSE a \in starts : \A b \in starts : a <= b
        j == OpenTagEnd(text, i)
        p == CHOOSE a \in (j + 1)..Len(text) :
                /\ CloseTagAt(text, a)
                /\ \A b \in (j + 1)..(a - 1) : ~CloseTagAt(text, b)
    IN  IF starts = {} THEN [found |-> FALSE, group |-> <<>>]
        ELSE [found |-> TRUE, group |-> SubSeq(text, j + 1, p - 1)]

\* value.match(/<untrusted-data[^>]*>([\s\S]*)$/i)
MatchNoClose(text) ==
    LET starts == {i \in 1..Len(text) : OpenTagEnd(text, i) # 0}
        i == CHOOSE a \in starts : \A b \in starts : a <= b
    IN  IF starts = {} THEN [found |-> FALSE, group |-> <<>>]
        ELSE [found |-> TRUE,
              group |-> SubSeq(text, OpenTagEnd(text, i) + 1, Len(text))]

stripBoundaryArtifacts(value) ==
    LET withClose == MatchWithClose(value)
        noClose == MatchNoClose(value)
        firstJsonChar == FirstIndex(value, {"[", "{"}, 1)
        lastBracket == LastIndex(value, {"]", "}"})
    IN  IF withClose.found THEN StripQuotes(Trim(withClose.group))
        ELSE IF noClose.found THEN StripQuotes(Trim(noClose.group))
        ELSE IF firstJsonChar >= 1 /\ lastBracket >= firstJsonChar
        THEN Trim(SubSeq(value, firstJsonChar, lastBracket))
        ELSE value

\* The text normalizeRowsPayload hands to JSON.parse.
NormalizeDecoded(text) ==
    stripBoundaryArtifacts(DecodedOrSelf(StripQuotes(Trim(text))))

\* A normalizer whose fallback is the decoded text, not the input.
normalizeRowsPayloadKeepsDecoded(rows) ==
    LET trimmed == StripQuotes(Trim(rows.v))
        r == JSONParse(NormalizeDecoded(rows.v))
    IN  IF rows.k # "string" THEN rows
        ELSE IF trimmed = <<>> THEN JArr(<<>>)
        ELSE IF r.ok THEN r.val
        ELSE JStr(NormalizeDecoded(rows.v))

normalizeRowsPayload(rows) ==
    LET trimmed == StripQuotes(Trim(rows.v))
        r == JSONParse(NormalizeDecoded(rows.v))
    IN  IF rows.k # "string" THEN rows
        ELSE IF trimmed = <<>> THEN JArr(<<>>)
        ELSE IF r.ok THEN r.val
        ELSE rows

(***************************************************************************)
(* The result unwrapper                                                    *)
(*                                                                         *)
(* A content chunk is [type, json, text], json and text being values       *)
(* (undefined when the field is absent).  An envelope is                   *)
(* [content, structuredContent, rows, data, sql]; content is               *)
(* [isArray, chunks].                                                      *)
(***************************************************************************)

\* The truthiness of a value (of the kinds the model holds).
Truthy(value) ==
    /\ ~Nullish(value)
    /\ value # JStr(<<>>)
    /\ value # JBool("false")

\* candidate: the text between the markers if there are any, without
\* surrounding quotes.
ChunkCandidate(decoded) ==
    LET untrustedMatch == MatchWithClose(decoded)
    IN  StripQuotes(IF untrustedMatch.found THEN Trim(untrustedMatch.group)
                    ELSE decoded)

\* JSON.parse(innerDecoded), or { rows: innerDecoded } where it throws.
ParsedOrRows(innerDecoded) ==
    LET r == JSONParse(innerDecoded)
    IN  IF r.ok THEN r.val
        ELSE JObj(Put(<<>>, <<"rows">>, JStr(innerDecoded)))

\* One text chunk of parseContentPayload.
ParseTextChunk(chunkText) ==
    ParsedOrRows(DecodedOrSelf(ChunkCandidate(DecodedOrSelf(StripQuotes(Trim(chunkText))))))

\* The loop of parseContentPayload over the chunks.
RECURSIVE ScanChunks(_)
ScanChunks(chunks) ==
    IF chunks = <<>> THEN JObj(<<>>)
    ELSE LET chunk == Head(chunks)
         IN  IF chunk.type = "json" /\ Truthy(chunk.json) THEN chunk.json
             ELSE IF chunk.type = "text" /\ chunk.text.k = "string"
             THEN ParseTextChunk(chunk.text.v)
             ELSE ScanChunks(Tail(chunks))

parseContentPayload(content) ==
    IF ~content.isArray \/ content.chunks = <<>> THEN JObj(<<>>)
    ELSE ScanChunks(content.chunks)

\* a ?? b ?? ... over the operands in order.
RECURSIVE Coalesce(_)
Coalesce(operands) ==
    IF Len(operands) = 1 \/ ~Nullish(Head(operands)) THEN Head(operands)
    ELSE Coalesce(Tail(operands))

\* value?.name
OptionalProp(value, name) ==
    IF Nullish(value) THEN JUndefined ELSE Prop(value, name)

\* The rest of unwrapToolResult once parsed is known: reading parsed.rows of
\* a null parsed throws.
UnwrapParsed(parsed, envelope) ==
    IF Nullish(parsed) THEN Thrown("TypeError")
    ELSE Returned([parsed |-> parsed,
                   rawRows |-> Coalesce(<<Prop(parsed, "rows"), Prop(parsed, "data"),
                                          OptionalProp(envelope.structuredContent, "rows"),
                                          OptionalProp(envelope.structuredContent, "data"),
                                          envelope.rows, envelope.data>>),
                   sql |-> Coalesce(<<Prop(parsed, "sql"), envelope.sql>>)])

unwrapToolResult(envelope) ==
    UnwrapParsed(parseContentPayload(envelope.content), envelope)

(***************************************************************************)
(* Payloads: values, their JSON text, and the wrappings a remote tool      *)
(* puts around it.                                                         *)
(***************************************************************************)
MaxDepth == 1

Scalars ==
    {JNull, JBool("true"), JNum(<<"1">>), JStr(<<"a">>), JStr(<<DQ>>), JStr(<<CloseTag>>)}

ObjectKeys == {<<"rows">>, <<"a">>}

RECURSIVE JsonValues(_)
JsonValues(depth) ==
    IF depth = 0 THEN Scalars
    ELSE LET inner == JsonValues(depth - 1)
         IN  inner
             \cup {JArr(<<>>), JObj(<<>>), JArr(<<JNum(<<"1">>), JStr(<<"a">>)>>)}
             \cup {JArr(<<x>>) : x \in inner}
             \cup {JObj(Put(<<>>, key, x)) : key \in ObjectKeys, x \in inner}

\* The escaping of JSON.stringify.
RECURSIVE EscapeText(_)
EscapeText(chars) ==
    IF chars = <<>> THEN <<>>
    ELSE (CASE Head(chars) = DQ -> <<BS, DQ>>
            [] Head(chars) = BS -> <<BS, BS>>
            [] Head(chars) = "\t" -> <<BS, "t">>
            [] Head(chars) = "\n" -> <<BS, "n">>
            [] Head(chars) = "\r" -> <<BS, "r">>
            [] Head(chars) = "\f" -> <<BS, "f">>
            [] OTHER -> <<Head(chars)>>) \o EscapeText(Tail(chars))

KeyOrder == <<<<"rows">>, <<"data">>, <<"sql">>, <<"a">>>>

RECURSIVE Stringify(_)
RECURSIVE StringifyItems(_)
RECURSIVE StringifyMembers(_, _, _)

StringifyItems(items) ==
    IF items = <<>> THEN <<>>
    ELSE Stringify(Head(items))
         \o (IF Len(items) > 1 THEN <<",">> ELSE <<>>)
         \o StringifyItems(Tail(items))

StringifyMembers(fields, keys, first) ==
    IF keys = <<>> THEN <<>>
    ELSE IF Head(keys) \notin DOMAIN fields
    THEN StringifyMembers(fields, Tail(keys), first)
    ELSE (IF first THEN <<>> ELSE <<",">>)
         \o <<DQ>> \o EscapeText(Head(keys)) \o <<DQ, ":">>
         \o Stringify(fields[Head(keys)])
         \o StringifyMembers(fields, Tail(keys), FALSE)

\* JSON.stringify(value)
Stringify(value) ==
    CASE value.k = "null" -> <<"null">>
      [] value.k = "boolean" -> value.v
      [] value.k = "number" -> value.v
      [] value.k = "string" -> <<DQ>> \o EscapeText(value.v) \o <<DQ>>
      [] value.k = "array" -> <<"[">> \o StringifyItems(value.v) \o <<"]">>
      [] value.k = "object" ->
            <<"{">> \o StringifyMembers(value.v, KeyOrder, TRUE) \o <<"}">>

\* json between an opening and a closing marker, inside prose.
Embed(before, attr, pad, json, after) ==
    before \o <<OpenTag>> \o attr \o <<GT>> \o pad \o json \o pad
           \o <<CloseTag>> \o attr \o <<GT>> \o after

(***************************************************************************)
(* SpecStrip: stripBoundaryArtifacts followed by JSON.parse                *)
(***************************************************************************)
ProseBefore ==
    {<<>>, <<"a", " ">>, <<"a", "[", DQ>>, <<CloseTag, GT>>, <<OpenTag, " ">>,
     <<OpenTag, GT, "a">>}

ProseAfter == {<<>>, <<" ", "a", "]">>, <<CloseTag, GT>>}

InitStrip ==
    /\ NoConnection
    /\ \E value \in JsonValues(MaxDepth), before \in ProseBefore, after \in ProseAfter,
          attr \in {<<>>, <<"a">>}, pad \in {<<>>, <<"\n">>} :
          input = [value |-> value, before |-> before,
                   text |-> Embed(before, attr, pad, Stringify(value), after)]
    /\ output = NotCalled

StripAndParse ==
    /\ output.st = "none"
    /\ output' = LET r == JSONParse(stripBoundaryArtifacts(input.text))
                 IN  IF r.ok THEN Returned(r.val) ELSE Thrown("SyntaxError")
    /\ UNCHANGED <<connVars, input>>

NextStrip == StripAndParse

SpecStrip == InitStrip /\ [][NextStrip]_vars

\* C10 as claimed: for every JSON value embedded between the markers, with
\* any surrounding prose, parsing the stripped text yields exactly the value.
C10_RoundTrip ==
    output.st # "none" => (output.st = "ok" /\ output.val = input.value)

\* A complete opening marker: the tag opener with a ">" after it.
HasOpeningMarker(text) ==
    \E i \in 1..Len(text), j \in 1..Len(text) :
        i < j /\ text[i] = OpenTag /\ text[j] = GT

\* The embeddings the amended round trip covers.
C10_InScope ==
    /\ input.value.k # "string"
    /\ \A i \in 1..Len(Stringify(input.value)) : Stringify(input.value)[i] # CloseTag
    /\ ~HasOpeningMarker(input.before)

\* C10 as amended: the round trip holds for every value that is not itself a
\* string, whose JSON text holds no closing tag opener, when the prose before
\* the marker holds no complete opening marker of its own.
C10_RoundTripNonString ==
    (output.st # "none" /\ C10_InScope)
        => (output.st = "ok" /\ output.val = input.value)

\* C10 witness: an object has been recovered from between the markers, with
\* prose before and after them.
C10_Witness ==
    /\ output.st = "ok"
    /\ C10_InScope
    /\ input.value.k = "object"
    /\ input.value.v # <<>>
    /\ input.before # <<>>
    /\ input.text[Len(input.text)] # GT
    /\ output.val = input.value

(***************************************************************************)
(* SpecNormalize: normalizeRowsPayload applied once, then to its own       *)
(* output                                                                  *)
(***************************************************************************)
MaxTextLen == 6

\* Escaped and quoted scalars, exhaustively.
EscapeAlphabet == {BS, DQ, "1", "t"}

\* The wrappings of a JSON text: as is, padded, escaped, quoted and escaped,
\* between markers, after an opening marker only, inside prose.
Wrappings(json) ==
    {json,
     <<" ">> \o json \o <<"\n">>,
     EscapeText(json),
     <<DQ>> \o EscapeText(json) \o <<DQ>>,
     EscapeText(<<DQ>> \o EscapeText(json) \o <<DQ>>),
     Embed(<<>>, <<>>, <<"\n">>, json, <<>>),
     EscapeText(Embed(<<"a", " ">>, <<>>, <<>>, json, <<>>)),
     <<OpenTag, GT>> \o json,
     <<"a", " ">> \o json \o <<" ", "a">>}

RowsInputs ==
    JsonValues(MaxDepth)
    \cup {JUndefined}
    \cup {JStr(text) : text \in TextsUpTo(EscapeAlphabet, MaxTextLen)}
    \cup {JStr(text) : text \in UNION {Wrappings(Stringify(value)) :
                                          value \in JsonValues(MaxDepth)}}
    \cup {JStr(<<"a", " ", "rows">>), JStr(<<" ">>), JStr(<<DQ, DQ>>)}

InitNormalize ==
    /\ NoConnection
    /\ input \in RowsInputs
    /\ output = [st |-> "none", val |-> JUndefined, prev |-> JUndefined]

NormalizeOnce ==
    /\ output.st = "none"
    /\ output' = [st |-> "once", val |-> normalizeRowsPayload(input),
                  prev |-> JUndefined]
    /\ UNCHANGED <<connVars, input>>

NormalizeAgain ==
    /\ output.st = "once"
    /\ output' = [st |-> "twice", val |-> normalizeRowsPayload(output.val),
                  prev |-> output.val]
    /\ UNCHANGED <<connVars, input>>

NextNormalize == NormalizeOnce \/ NormalizeAgain

SpecNormalize == InitNormalize /\ [][NextNormalize]_vars

\* C9 as claimed: for every input, normalizeRowsPayload applied to its own
\* output returns that output.
C9_Idempotent ==
    output.st = "twice" => output.val = output.prev

\* The input is a string whose decoded text JSON-parses to a string.
C9_DecodesToString ==
    /\ input.k = "string"
    /\ StripQuotes(Trim(input.v)) # <<>>
    /\ JSONParse(NormalizeDecoded(input.v)).ok
    /\ JSONParse(NormalizeDecoded(input.v)).val.k = "string"

\* C9 as amended: normalizeRowsPayload applied to its own output returns that
\* output for every input except a string whose decoded text JSON-parses to
\* a string (such an output is decoded once more by the second pass).
C9_IdempotentUnlessString ==
    (output.st = "twice" /\ ~C9_DecodesToString) => output.val = output.prev

\* C9 witness: an escaped text between markers was decoded to a non-empty
\* array by the first pass, and the second pass has returned the same array.
C9_Witness ==
    /\ output.st = "twice"
    /\ input.k = "string"
    /\ DecodedOrSelf(StripQuotes(Trim(input.v))) # StripQuotes(Trim(input.v))
    /\ MatchWithClose(DecodedOrSelf(StripQuotes(Trim(input.v)))).found
    /\ output.prev.k = "array"
    /\ output.prev.v # <<>>
    /\ output.val = output.prev

\* C9 witness of the fallback: a text that does not decode came back as it
\* was from both passes.
C9_WitnessFallback ==
    /\ output.st = "twice"
    /\ input.k = "string"
    /\ ~JSONParse(NormalizeDecoded(input.v)).ok
    /\ output.val = input

(***************************************************************************)
(* SpecUnwrap: unwrapToolResult followed by normalizeRowsPayload, as       *)
(* executeSupabaseSql and fetchSchemaSnapshot run them on a tool result    *)
(***************************************************************************)
MaxChunkLen == 2

ChunkAlphabet == {"null", "1", DQ, "a"}

\* A row payload that tells its source: an array of one number of n digits.
Marker(n) == JArr(<<JNum([i \in 1..n |-> "1"])>>)

\* An object with the given rows and data fields, absent when undefined.
PayloadObject(rows, data) ==
    LET withRows == IF rows = JUndefined THEN <<>> ELSE Put(<<>>, <<"rows">>, rows)
    IN  JObj(IF data = JUndefined THEN withRows ELSE Put(withRows, <<"data">>, data))

PayloadObjects(n) ==
    {PayloadObject(rows, data) :
        rows \in {JUndefined, JNull, Marker(n), JStr(Stringify(Marker(n)))},
        data \in {JUndefined, JNull, Marker(n + 1)}}

ChunkTexts ==
    TextsUpTo(ChunkAlphabet, MaxChunkLen)
    \cup UNION {{Stringify(object),
                 <<DQ>> \o EscapeText(Stringify(object)) \o <<DQ>>,
                 Embed(<<"a", " ">>, <<>>, <<"\n">>, Stringify(object), <<>>)} :
                    object \in PayloadObjects(1)}

TextChunk(text) == [type |-> "text", json |-> JUndefined, text |-> JStr(text)]
JsonChunk(value) == [type |-> "json", json |-> value, text |-> JUndefined]

\* Chunks the loop of parseContentPayload passes over.
SkippedChunks ==
    {[type |-> "image", json |-> JUndefined, text |-> JUndefined],
     [type |-> "text", json |-> JUndefined, text |-> JUndefined],
     JsonChunk(JNull), JsonChunk(JBool("false"))}

DecidingChunks ==
    {TextChunk(text) : text \in ChunkTexts}
    \cup {JsonChunk(object) : object \in PayloadObjects(1)}
    \cup {JsonChunk(Marker(1)), JsonChunk(JStr(<<"a">>))}

Contents ==
    {[isArray |-> FALSE, chunks |-> <<>>], [isArray |-> TRUE, chunks |-> <<>>]}
    \cup {[isArray |-> TRUE, chunks |-> <<chunk>>] :
            chunk \in DecidingChunks \cup SkippedChunks}
    \cup {[isArray |-> TRUE, chunks |-> <<skipped, chunk>>] :
            skipped \in SkippedChunks,
            chunk \in {TextChunk(<<"null">>), TextChunk(<<"a">>),
                       JsonChunk(PayloadObject(JUndefined, Marker(2)))}}
    \cup {[isArray |-> TRUE, chunks |-> <<chunk, TextChunk(<<"null">>)>>] :
            chunk \in {JsonChunk(PayloadObject(Marker(1), JUndefined)),
                       TextChunk(<<"{", "}">>)}}

StructuredContents ==
    {JUndefined, JNull, JObj(<<>>),
     PayloadObject(Marker(3), Marker(4)), PayloadObject(JNull, Marker(4)),
     PayloadObject(JUndefined, Marker(4)), PayloadObject(Marker(3), JUndefined)}

Envelopes ==
    [content : Contents,
     structuredContent : StructuredContents,
     rows : {JUndefined, JNull, Marker(5)},
     data : {JUndefined, JNull, Marker(6)},
     sql : {JUndefined, JStr(<<"sql">>)}]

InitUnwrap ==
    /\ NoConnection
    /\ input \in Envelopes
    /\ output = NotCalled

\* The position after unwrapToolResult: thrown, or normalization to come.
Unwrapped(outcome) ==
    IF outcome.st = "error" THEN outcome
    ELSE [st |-> "unwrapped", val |-> outcome.val]

\* const { rawRows, sql: resolvedSql } = unwrapToolResult(result)
UnwrapResult ==
    /\ output.st = "none"
    /\ output' = Unwrapped(unwrapToolResult(input))
    /\ UNCHANGED <<connVars, input>>

\* const normalizedRows = normalizeRowsPayload(rawRows)
NormalizeRows ==
    /\ output.st = "unwrapped"
    /\ output' = Returned([parsed |-> output.val.parsed,
                           rawRows |-> output.val.rawRows,
                           sql |-> output.val.sql,
                           rows |-> normalizeRowsPayload(output.val.rawRows)])
    /\ UNCHANGED <<connVars, input>>

NextUnwrap == UnwrapResult \/ NormalizeRows

SpecUnwrap == InitUnwrap /\ [][NextUnwrap]_vars

\* C4: for every tool result envelope, unwrapToolResult followed by
\* normalizeRowsPayload returns a value and never throws.
C4_DecodingNeverThrows ==
    output.st # "error"

\* The six sources of the row payload, in the order of the precedence.
C8_Sources ==
    LET parsed == parseContentPayload(input.content)
        field(value, name) ==
            IF value.k = "object" /\ <<name>> \in DOMAIN value.v
            THEN value.v[<<name>>] ELSE JUndefined
    IN  <<field(parsed, "rows"), field(parsed, "data"),
          field(input.structuredContent, "rows"),
          field(input.structuredContent, "data"),
          input.rows, input.data>>

\* C8: for every envelope unwrapToolResult yields a rawRows, and it is the
\* value of the earliest of the six sources that is present (neither
\* undefined nor null); a later source is never chosen over an earlier one.
C8_FirstPresentSource ==
    output.st # "none" =>
        /\ output.st # "error"
        /\ \A i \in 1..6 :
              ( /\ ~Nullish(C8_Sources[i])
                /\ \A j \in 1..(i - 1) : Nullish(C8_Sources[j]) )
              => output.val.rawRows = C8_Sources[i]

(***************************************************************************)
(* SpecDecode: decodeEscapedJson                                           *)
(***************************************************************************)
MaxDecodeLen == 4

DecodeAlphabet == {BS, DQ, "t", "a", "[", "]", "\n"}

DecodeInputs ==
    TextsUpTo(DecodeAlphabet, MaxDecodeLen)
    \cup {<<"n", "o", "t", " ", "j", "s", "o", "n">>,
          <<"{", DQ, "a", DQ, ":", "1", "}">>,
          <<BS, DQ, "h", "e", "l", "l", "o", BS, DQ>>,
          <<"{", "a">>, <<"a", "}">>, <<"[", "a", "}">>,
          <<BS, "null">>, <<BS, "a">>}

InitDecode ==
    /\ NoConnection
    /\ input \in DecodeInputs
    /\ output = NotCalled

Decode ==
    /\ output.st = "none"
    /\ output' = Returned(decodeEscapedJson(input))
    /\ UNCHANGED <<connVars, input>>

NextDecode == Decode

SpecDecode == InitDecode /\ [][NextDecode]_vars

\* The input starts and ends with matching object or array brackets.
C11_MatchingBrackets ==
    /\ input # <<>>
    /\ <<Head(input), input[Len(input)]>> \in {<<"{", "}">>, <<"[", "]">>}

\* The text is the body of a JSON string literal: no bare quote, no control
\* character, every backslash followed by an escape letter.
RECURSIVE C11_LiteralBody(_)
C11_LiteralBody(text) ==
    IF text = <<>> THEN TRUE
    ELSE IF Head(text) = BS
    THEN Len(text) >= 2 /\ text[2] \in EscapeLetters
         /\ C11_LiteralBody(SubSeq(text, 3, Len(text)))
    ELSE Head(text) \notin {DQ} \cup ControlChars /\ C11_LiteralBody(Tail(text))

\* The text with one layer of JSON string escaping undone.
RECURSIVE C11_Unescaped(_)
C11_Unescaped(text) ==
    IF text = <<>> THEN <<>>
    ELSE IF Head(text) = BS
    THEN <<EscapedChar(text[2])>> \o EscapeRest(text[2])
         \o C11_Unescaped(SubSeq(text, 3, Len(text)))
    ELSE <<Head(text)>> \o C11_Unescaped(Tail(text))

\* The text is plain: no quote, no backslash, no control character.
C11_Plain(text) ==
    \A i \in 1..Len(text) : text[i] \notin {DQ, BS} \cup ControlChars

\* C11 as claimed: bracketed input comes back unchanged; other input comes
\* back with one layer of escaping undone when it is the body of a string
\* literal and null otherwise; and plain text that is not JSON yields null.
C11_PlainTextYieldsNull ==
    output.st = "ok" =>
        /\ C11_MatchingBrackets =>
              output.val = [isNull |-> FALSE, text |-> input]
        /\ (~C11_MatchingBrackets /\ ~C11_LiteralBody(input)) => output.val.isNull
        /\ ( /\ ~C11_MatchingBrackets
             /\ input # <<>>
             /\ C11_Plain(input)
             /\ ~JSONParse(input).ok )
              => output.val.isNull

\* C11 as amended: bracketed input comes back unchanged; other input comes
\* back with one layer of escaping undone when it is the body of a string
\* literal and null otherwise; plain text (no quote, backslash or control
\* character) is such a body and comes back unchanged, never null.
C11_PlainTextUnchanged ==
    output.st = "ok" =>
        /\ C11_MatchingBrackets =>
              output.val = [isNull |-> FALSE, text |-> input]
        /\ (~C11_MatchingBrackets /\ C11_LiteralBody(input)) =>
              output.val = [isNull |-> FALSE, text |-> C11_Unescaped(input)]
        /\ (~C11_MatchingBrackets /\ ~C11_LiteralBody(input)) => output.val.isNull
        /\ C11_Plain(input) => output.val = [isNull |-> FALSE, text |-> input]

\* C11 witness: an escaped quoted text has had its escaping undone.
C11_Witness ==
    /\ output.st = "ok"
    /\ ~C11_MatchingBrackets
    /\ Len(input) > 4 /\ input[1] = BS /\ input[2] = DQ
    /\ input[Len(input) - 1] = BS /\ input[Len(input)] = DQ
    /\ ~output.val.isNull
    /\ output.val.text # input
    /\ Head(output.val.text) = DQ

(***************************************************************************)
(* SpecExec: one call of executeSupabaseSql, from getClient to the         *)
(* returned rows, with the requests it sends to the remote server          *)
(*                                                                         *)
(* The call is caller 1 of the connection model.  input holds what the     *)
(* call is given and what the remote server will answer; output holds the  *)
(* position of the call (pc), the outcome of the guard, the events so far  *)
(* (the guard's acceptance and every request sent, in order) and the       *)
(* outcome of the call.                                                    *)
(***************************************************************************)
ExecCaller == 1

ExecSql ==
    {<<>>, <<"drop", " ", "x">>, <<"select", " ", "drop">>,
     <<"select", " ", "1">>, <<"select", " ", "1", ";">>,
     <<"select", " ", "x", " ", "limit", " ", "1">>,
     <<Fence, "sql", "\n", "select", " ", "1", "\n", Fence>>}

\* inputSchema of the execute_sql tool as the server declares it.
ExecSchemas ==
    {[hasProperties |-> FALSE, properties |-> {}, required |-> {}],
     [hasProperties |-> TRUE, properties |-> {}, required |-> {}],
     [hasProperties |-> TRUE, properties |-> {"sql"}, required |-> {"sql"}],
     [hasProperties |-> TRUE, properties |-> {"Query", "foo"}, required |-> {}],
     [hasProperties |-> TRUE, properties |-> {"foo"}, required |-> {}],
     [hasProperties |-> TRUE, properties |-> {"sql", "foo"}, required |-> {"foo"}]}

\* list.tools as the server answers it.
Catalogs ==
    {<<>>, <<[name |-> "list_tables", inputSchema |-> CHOOSE t \in ExecSchemas : TRUE]>>}
    \cup {<<[name |-> "execute_sql", inputSchema |-> schema]>> : schema \in ExecSchemas}
    \cup {<<[name |-> "list_tables", inputSchema |-> schema],
           [name |-> "execute_sql", inputSchema |-> schema]>> : schema \in ExecSchemas}

\* The answers to callTool: a rejected request, an error result, envelopes.
ToolAnswers ==
    {[rejects |-> TRUE, isError |-> FALSE, envelope |-> JNull],
     [rejects |-> FALSE, isError |-> TRUE, envelope |-> JNull]}
    \cup {[rejects |-> FALSE, isError |-> FALSE, envelope |-> envelope] :
            envelope \in {e \in Envelopes :
                /\ e.content \in {[isArray |-> FALSE, chunks |-> <<>>],
                                  [isArray |-> TRUE, chunks |-> <<TextChunk(<<"null">>)>>],
                                  [isArray |-> TRUE,
                                   chunks |-> <<JsonChunk(PayloadObject(Marker(1), JUndefined))>>]}
                /\ e.structuredContent = JUndefined
                /\ e.rows \in {JUndefined, Marker(5)}
                /\ e.data = JUndefined}}

NotStarted ==
    [pc |-> "start", guard |-> NotCalled, events |-> <<>>, outcome |-> NotCalled]

InitExec ==
    /\ NoConnection
    /\ input \in [sql : ExecSql, listRejects : BOOLEAN, tools : Catalogs,
                  answer : ToolAnswers]
    /\ output = NotStarted

\* The call ends: its promise is settled with the outcome.
Settled(outcome) == [output EXCEPT !.pc = "done", !.outcome = outcome]

\* const client = await getClient(), up to the await.
ExecGetClient ==
    /\ output.pc = "start"
    /\ result[ExecCaller] = "idle"
    /\ getClient(ExecCaller)

\* await getClient() throws: the call rejects with the connection error.
ExecConnectionFailed ==
    /\ output.pc = "start"
    /\ result[ExecCaller] = "error"
    /\ output' = Settled(Thrown("connection failed"))
    /\ UNCHANGED <<connVars, input>>

\* Mutant: the context carries the input, not the guard's statement.
ExecContextRaw(sanitizedSql, sql) == [prompt |-> sql]

\* const executionContext = { prompt: sanitizedSql }
ExecContext(sanitizedSql, sql) == [prompt |-> sanitizedSql]

\* tools.find((tool) => tool.name === toolName): the index of the first tool
\* of that name, or 0.
FindTool(tools, toolName) ==
    IF \E i \in 1..Len(tools) : tools[i].name = toolName
    THEN CHOOSE i \in 1..Len(tools) :
            /\ tools[i].name = toolName
            /\ \A j \in 1..(i - 1) : tools[j].name # toolName
    ELSE 0

\* resolveTool after list = await client.listTools().
resolveTool(tools, toolName) ==
    IF tools = <<>>
    THEN Thrown("Supabase MCP server did not return any tools.")
    ELSE IF FindTool(tools, toolName) = 0
    THEN Thrown("tool not found")
    ELSE Returned(tools[FindTool(tools, toolName)])

\* await getClient() returns the client; sanitizeReadOnlySql runs; when it
\* throws the call rejects with its error, otherwise callSupabaseTool and
\* resolveTool run up to await client.listTools(): the request is sent.
ExecGuard ==
    /\ output.pc = "start"
    /\ result[ExecCaller] = "client"
    /\ output' =
         LET guard == sanitizeReadOnlySql(input.sql)
         IN  IF guard.st = "error"
             THEN [Settled(guard) EXCEPT !.guard = guard]
             ELSE [output EXCEPT
                     !.pc = "listTools",
                     !.guard = guard,
                     !.events = <<[kind |-> "accepted", payload |-> guard.val],
                                  [kind |-> "listTools", payload |-> <<>>]>>]
    /\ UNCHANGED <<connVars, input>>

\* callSupabaseTool from the answer to listTools up to await client.callTool:
\* the arguments are built and the request is sent, or an error is thrown.
AfterListTools(tools, guard, sql) ==
    LET tool == resolveTool(tools, "execute_sql")
        args == buildArgumentsForTool(tool.val.inputSchema,
                                      ExecContext(guard.val, sql),
                                      [given |-> FALSE, map |-> EmptyMapping])
    IN  IF tool.st = "error" THEN Settled(tool)
        ELSE IF args.st = "error" THEN Settled(args)
        ELSE [output EXCEPT
                !.pc = "callTool",
                !.events = Append(@, [kind |-> "callTool",
                                      payload |-> [name |-> tool.val.name,
                                                   arguments |-> args.val]])]

\* await client.listTools() settles.
ExecListToolsSettles ==
    /\ output.pc = "listTools"
    /\ output' = IF input.listRejects THEN Settled(Thrown("listTools failed"))
                 ELSE AfterListTools(input.tools, output.guard, input.sql)
    /\ UNCHANGED <<connVars, input>>

\* executeSupabaseSql from the result of callSupabaseTool to its return.
AfterCallTool(envelope, sanitizedSql) ==
    LET unwrapped == unwrapToolResult(envelope)
    IN  IF unwrapped.st = "error" THEN unwrapped
        ELSE Returned([sql |-> Coalesce(<<unwrapped.val.sql, JStr(sanitizedSql)>>),
                       rows |-> normalizeRowsPayload(unwrapped.val.rawRows)])

\* await client.callTool(...) settles.
ExecCallToolSettles ==
    /\ output.pc = "callTool"
    /\ output' =
         IF input.answer.rejects THEN Settled(Thrown("callTool failed"))
         ELSE IF input.answer.isError
         THEN Settled(Thrown("Supabase MCP tool returned an error"))
         ELSE Settled(AfterCallTool(input.answer.envelope, output.guard.val))
    /\ UNCHANGED <<connVars, input>>

NextExec ==
    \/ ExecGetClient
    \/ \E c \in Creations : connectResolves(c)
    \/ \E c \in Creations : connectRejects(c)
    \/ \E c \in Creations : createClientCatch(c)
    \/ awaitResumes(ExecCaller)
    \/ \E c \in Creations : onclose(c)
    \/ \E c \in Creations : onerror(c)
    \/ ExecConnectionFailed
    \/ ExecGuard
    \/ ExecListToolsSettles
    \/ ExecCallToolSettles

SpecExec == InitExec /\ [][NextExec]_vars

\* The requests sent to the remote server so far, by position in the events.
C12_Requests ==
    {i \in 1..Len(output.events) : output.events[i].kind \in {"listTools", "callTool"}}

\* C12: in every execution of executeSupabaseSql a listTools or callTool
\* request is sent only after sanitizeReadOnlySql has accepted the input;
\* the arguments of callTool carry exactly the statement the guard returned;
\* and when the guard rejects the input no request is sent and the call
\* ends with the guard's error.
C12_GuardBeforeInvoke ==
    /\ output.guard.st # "none" => output.guard = sanitizeReadOnlySql(input.sql)
    /\ \A i \in C12_Requests :
          /\ output.guard.st = "ok"
          /\ \E j \in 1..(i - 1) :
                output.events[j] = [kind |-> "accepted", payload |-> output.guard.val]
    /\ \A i \in C12_Requests :
          output.events[i].kind = "callTool" =>
              /\ DOMAIN output.events[i].payload.arguments # {}
              /\ \A key \in DOMAIN output.events[i].payload.arguments :
                    output.events[i].payload.arguments[key] = output.guard.val
    /\ output.guard.st = "error" =>
          /\ C12_Requests = {}
          /\ output.pc = "done"
          /\ output.outcome = output.guard

\* C12 witness: a fenced statement was accepted, listTools and then callTool
\* were sent, the statement travelling under the declared sql argument, and
\* the call has returned.
C12_Witness ==
    /\ output.pc = "done"
    /\ output.outcome.st = "ok"
    /\ Head(input.sql) = Fence
    /\ Len(output.events) = 3
    /\ output.events[3].kind = "callTool"
    /\ "sql" \in DOMAIN output.events[3].payload.arguments
    /\ output.events[3].payload.arguments["sql"] # input.sql

\* C12 witness of the rejection: the guard has thrown and the call ended
\* with its error, nothing sent.
C12_WitnessRejected ==
    /\ output.pc = "done"
    /\ output.guard.st = "error"
    /\ output.outcome = output.guard
    /\ output.events = <<>>

====
